---- MODULE Spec2Model ----
(***************************************************************************)
(* Model of the RLN library (kilic/rln): the native Poseidon hash          *)
(* (src/src/poseidon.rs), the sparse Merkle tree (src/src/merkle.rs) and   *)
(* the verify entry point (src/src/public.rs, src/src/utils.rs,            *)
(* src/src/hash_to_field.rs).  The scalar field of the pairing curve is    *)
(* scaled down to a small prime field; all arithmetic is done modulo       *)
(* FrModulus exactly as the field type does it modulo the curve order.     *)
(***************************************************************************)
EXTENDS Integers, Sequences, FiniteSets, TLC

VARIABLES hasher, tree, rln, call, ret, nops
vars == <<hasher, tree, rln, call, ret, nops>>

(***************************************************************************)
(* Field arithmetic (E::Fr).                                               *)
(***************************************************************************)
FrModulus == 13

Fr == 0 .. (FrModulus - 1)

add_assign(a, b) == (a + b) % FrModulus

mul_assign(a, b) == (a * b) % FrModulus

square(a) == (a * a) % FrModulus

(***************************************************************************)
(* Bounds of the model.                                                    *)
(***************************************************************************)
MaxInputVal == 2

InputVals == 0 .. MaxInputVal

RECURSIVE SeqsUpTo(_, _)
SeqsUpTo(S, n) ==
    IF n = 0 THEN {<< >>}
    ELSE LET shorter == SeqsUpTo(S, n - 1)
         IN  shorter \cup {Append(s, x) : s \in {q \in shorter : Len(q) = n - 1}, x \in S}

(***************************************************************************)
(* Return values: a value, an io::Error, or a panic (abort).               *)
(***************************************************************************)
Ok(v) == [kind |-> "ok", val |-> v]

Err(e) == [kind |-> "err", val |-> e]

Panic == [kind |-> "panic", val |-> "panic"]

NoCall == [kind |-> "none", val |-> "none"]

(***************************************************************************)
(* PoseidonParams.  The Blake2s-derived constants are parameters of        *)
(* PoseidonParams::new; the model supplies fixed small parameter sets.     *)
(***************************************************************************)
PoseidonParams_new(rf, rp, t, round_constants, mds_matrix) ==
    [rf |-> rf, rp |-> rp, t |-> t,
     round_constants |-> round_constants, mds_matrix |-> mds_matrix]

\* Cauchy matrix 1/(x_i + y_j) over the model field for x = (1,2,3), y = (4,5,6)
ParamsA == PoseidonParams_new(2, 1, 3, <<3, 5, 11>>, <<8, 11, 2, 11, 2, 5, 2, 5, 3>>)

ParamsB == PoseidonParams_new(4, 2, 3, <<7, 1, 4, 9, 2, 6>>, <<8, 11, 2, 11, 2, 5, 2, 5, 3>>)

\* width 2: x = (1,2), y = (3,4)
ParamsC == PoseidonParams_new(2, 2, 2, <<2, 9, 5, 1>>, <<10, 8, 8, 11>>)

ParamChoices == {ParamsA, ParamsB, ParamsC}

width(params) == params.t

partial_round_len(params) == params.rp

full_round_half_len(params) == params.rf \div 2

total_rounds(params) == params.rf + params.rp

(***************************************************************************)
(* Poseidon instance: state, round, params.                                *)
(***************************************************************************)
Poseidon_new(params) == [round |-> 0, state |-> << >>, params |-> params]

\* a vector given element by element, as a tuple
Vec(f) == f \o << >>

new_state_pad_one(t, inputs) ==
    Vec([i \in 1 .. t |-> IF i <= Len(inputs) THEN inputs[i] ELSE 1])

\* Vec::resize(t, zero): truncates a longer vector, pads a shorter one
new_state(t, inputs) ==
    Vec([i \in 1 .. t |-> IF i <= Len(inputs) THEN inputs[i] ELSE 0])

clear_keeps_round(h) == h

clear(h) == [h EXCEPT !.round = 0]

result(state) == state[1]

add_round_constants(params, state, r) ==
    Vec([i \in 1 .. Len(state) |-> add_assign(state[i], params.round_constants[r + 1])])

quintic(s) == mul_assign(s, square(square(s)))

apply_quintic_sbox(state, full) ==
    Vec([i \in 1 .. Len(state) |-> IF full \/ i = 1 THEN quintic(state[i]) ELSE state[i]])

RECURSIVE mds_row_sum(_, _, _, _)
mds_row_sum(params, state, i, j) ==
    IF j > Len(state) THEN 0
    ELSE add_assign(mul_assign(state[j], params.mds_matrix[(i - 1) * params.t + j]),
                    mds_row_sum(params, state, i, j + 1))

mul_mds_matrix(params, state) ==
    Vec([i \in 1 .. params.t |-> mds_row_sum(params, state, i, 1)])

full_round(params, state, r) ==
    mul_mds_matrix(params, apply_quintic_sbox(add_round_constants(params, state, r), TRUE))

\* a last round that multiplies by the MDS matrix as the other full rounds do
full_round_last_with_mds(params, state) ==
    full_round(params, state, total_rounds(params) - 1)

full_round_last(params, state) ==
    apply_quintic_sbox(add_round_constants(params, state, total_rounds(params) - 1), TRUE)

partial_round(params, state, r) ==
    mul_mds_matrix(params, apply_quintic_sbox(add_round_constants(params, state, r), FALSE))

\* Poseidon::round: the new state, or a panic ("should not be here")
round(params, state, r) ==
    LET a1 == full_round_half_len(params)
        a2 == a1 + partial_round_len(params)
        a3 == total_rounds(params)
    IN  IF r < a1 THEN [panic |-> FALSE, state |-> full_round(params, state, r)]
        ELSE IF r >= a1 /\ r < a2
             THEN [panic |-> FALSE, state |-> partial_round(params, state, r)]
        ELSE IF r >= a2 /\ r < a3
             THEN IF r = a3 - 1
                  THEN [panic |-> FALSE, state |-> full_round_last(params, state)]
                  ELSE [panic |-> FALSE, state |-> full_round(params, state, r)]
        ELSE [panic |-> TRUE, state |-> state]

\* the loop of Poseidon::hash, started at the instance's round counter
RECURSIVE hash_loop(_, _, _)
hash_loop(params, state, r) ==
    LET s == round(params, state, r)
    IN  IF s.panic THEN [panic |-> TRUE, state |-> state, round |-> r]
        ELSE IF r + 1 = total_rounds(params)
             THEN [panic |-> FALSE, state |-> s.state, round |-> r + 1]
             ELSE hash_loop(params, s.state, r + 1)

\* the end of Poseidon::hash after its loop l: clear() and result()
hash_return(h, l) ==
    IF l.panic
    THEN [ret |-> Panic, h |-> [h EXCEPT !.state = l.state, !.round = l.round]]
    ELSE [ret |-> Ok(result(l.state)),
          h   |-> clear([h EXCEPT !.state = l.state, !.round = l.round])]

\* Poseidon::hash on instance h: the returned value and the instance afterwards
hash(h, inputs) ==
    hash_return(h, hash_loop(h.params, new_state(h.params.t, inputs), h.round))

EmptyMap == [k \in {} |-> 0]

\* the parameter sets the trees are built with (width 3: two inputs and capacity)
MerkleParamChoices == {ParamsA, ParamsB}

\* Poseidon::hash on a new instance, tabulated for the one- and two-element
\* inputs the tree hashes (@@ makes the table an explicit function)
HashKeys == MerkleParamChoices \X {x \in SeqsUpTo(Fr, 2) : Len(x) > 0}

HashTable == [k \in HashKeys |-> hash(Poseidon_new(k[1]), k[2])] @@ EmptyMap

\* self.hasher.hash(inputs): hash overwrites the state of the instance, so on
\* an instance whose round counter is 0 the call is the tabulated one
hasher_hash(h, inputs) ==
    IF h.round = 0 /\ <<h.params, inputs>> \in HashKeys
    THEN HashTable[<<h.params, inputs>>]
    ELSE hash(h, inputs)

(***************************************************************************)
(* Sparse Merkle tree (src/src/merkle.rs): hasher, zero, depth, nodes.     *)
(* nodes is the HashMap keyed by (level, index).                           *)
(***************************************************************************)
MaxDepth == 2

MaxOps == 2

\* the field elements callers hand in as data
LeafVals == {0, 1}

Pow2(n) == 2 ^ n

map_insert(nodes, k, v) ==
    [x \in (DOMAIN nodes) \cup {k} |-> IF x = k THEN v ELSE nodes[x]]

\* value of a hash call that cannot abort (the hasher was cleared before it)
hash_val(h, inputs) == hasher_hash(h, inputs).ret.val

reverse_forgotten(s) == s

\* zero.reverse()
Reverse(s) == Vec([i \in 1 .. Len(s) |-> s[Len(s) + 1 - i]])

\* the loop of MerkleTree::empty: zero.push(hasher.hash([zero[i]; 2]))
RECURSIVE zero_push(_, _, _, _)
\* one push, hc being the hash call's outcome
zero_pushed(hc, zero, i, depth) == zero_push(hc.h, Append(zero, hc.ret.val), i + 1, depth)

zero_push(h, zero, i, depth) ==
    IF i = depth THEN [h |-> h, zero |-> zero]
    ELSE zero_pushed(hasher_hash(h, <<zero[i + 1], zero[i + 1]>>), zero, i, depth)

\* the tree MerkleTree::empty returns, z being the outcome of its loop
empty_tree(z, depth) ==
    [hasher |-> z.h, zero |-> Reverse(z.zero), depth |-> depth, nodes |-> EmptyMap]

\* MerkleTree::empty; zero[level] of the code is zero[level + 1] here
empty(h, depth) == empty_tree(zero_push(h, <<0>>, 0, depth), depth)

get_node(t, level, index) ==
    IF <<level, index>> \in DOMAIN t.nodes THEN t.nodes[<<level, index>>]
    ELSE t.zero[level + 1]

\* index & !1
clear_low_bit(index) == index - (index % 2)

hash_couple_no_mask(t, level, index) ==
    hasher_hash(t.hasher, <<get_node(t, level, index), get_node(t, level, index + 1)>>)

hash_couple(t, level, index) ==
    LET b == clear_low_bit(index)
    IN  hasher_hash(t.hasher, <<get_node(t, level, b), get_node(t, level, b + 1)>>)

\* the loop of recalculate_from and its two closing assertions
RECURSIVE recalculate_loop(_, _, _)
\* after self.nodes.insert((depth, i), h): the break and the assertions
recalculate_inserted(t2, i2, d2) ==
    IF d2 = 0
    THEN [tree |-> t2, ret |-> IF i2 = 0 THEN Ok(0) ELSE Panic]
    ELSE recalculate_loop(t2, i2, d2)

\* one turn of the loop, hc being the outcome of hash_couple(depth, i)
recalculate_turn(t, i2, d2, hc) ==
    IF hc.ret.kind = "panic" THEN [tree |-> [t EXCEPT !.hasher = hc.h], ret |-> Panic]
    ELSE recalculate_inserted(
             [t EXCEPT !.hasher = hc.h,
                       !.nodes = map_insert(t.nodes, <<d2, i2>>, hc.ret.val)], i2, d2)

recalculate_loop(t, i, depth) ==
    recalculate_turn(t, i \div 2, depth - 1, hash_couple(t, depth, i))

recalculate_from(t, leaf_index) == recalculate_loop(t, leaf_index, t.depth)

update(t, leaf_index, leaf) ==
    recalculate_from([t EXCEPT !.nodes = map_insert(t.nodes, <<t.depth, leaf_index>>, leaf)],
                     leaf_index)

\* old is << >> for None and <<v>> for Some(v)
insert_stores_new(t, leaf_index, new, old) == update(t, leaf_index, new)

\* the assertion on a leaf tn that is not zero, ho being the outcome of hash(vec![old])
insert_old_hashed(t, tn, ho) ==
    [tree |-> [t EXCEPT !.hasher = ho.h],
     ret  |-> IF ho.ret.kind = "ok" /\ tn = ho.ret.val THEN Ok(0) ELSE Panic]

\* the block of insert that checks old against the stored leaf tn
insert_check(t, tn, old) ==
    IF old = << >> THEN [tree |-> t, ret |-> Ok(0)]
    ELSE IF tn = 0
         THEN [tree |-> t, ret |-> IF old[1] = 0 THEN Ok(0) ELSE Panic]
         ELSE insert_old_hashed(t, tn, hasher_hash(t.hasher, old))

\* self.update(leaf_index, leaf), hl being the outcome of hash(vec![new])
insert_leaf(t, leaf_index, hl) ==
    IF hl.ret.kind = "panic" THEN [tree |-> [t EXCEPT !.hasher = hl.h], ret |-> Panic]
    ELSE update([t EXCEPT !.hasher = hl.h], leaf_index, hl.ret.val)

insert_checked(checked, leaf_index, new) ==
    IF checked.ret.kind = "panic" THEN checked
    ELSE insert_leaf(checked.tree, leaf_index, hasher_hash(checked.tree.hasher, <<new>>))

insert(t, leaf_index, new, old) ==
    insert_checked(insert_check(t, get_node(t, t.depth, leaf_index), old), leaf_index, new)

root(t) == get_node(t, 0, 0)

flip_low_bit_forgotten(i) == i

\* i ^= 1
flip_low_bit(i) == IF i % 2 = 0 THEN i + 1 ELSE i - 1

RECURSIVE witness_loop_bit_inverted(_, _, _, _)
witness_loop_bit_inverted(t, i, depth, acc) ==
    LET s  == flip_low_bit(i)
        w  == Append(acc, <<get_node(t, depth, s), s % 2 = 0>>)
        i2 == s \div 2
        d2 == depth - 1
    IN  IF d2 = 0 THEN IF i2 = 0 THEN Ok(w) ELSE Panic
        ELSE witness_loop_bit_inverted(t, i2, d2, w)

RECURSIVE witness_loop(_, _, _, _)
witness_loop(t, i, depth, acc) ==
    LET s  == flip_low_bit(i)
        w  == Append(acc, <<get_node(t, depth, s), s % 2 = 1>>)
        i2 == s \div 2
        d2 == depth - 1
    IN  IF d2 = 0 THEN IF i2 = 0 THEN Ok(w) ELSE Panic
        ELSE witness_loop(t, i2, d2, w)

witness(t, leaf_index) == witness_loop(t, leaf_index, t.depth, << >>)

\* the fold of check_inclusion over the path, from entry k on
RECURSIVE inclusion_fold(_, _, _, _)
\* after the hash call of one path entry, hc being its outcome
inclusion_folded(hc, path, k) ==
    IF hc.ret.kind = "panic" THEN [h |-> hc.h, ret |-> Panic]
    ELSE inclusion_fold(hc.h, path, k + 1, hc.ret.val)

\* the two elements hashed for path entry w: (acc, w.0) if w.1, else (w.0, acc)
inclusion_couple(w, acc) == IF w[2] THEN <<acc, w[1]>> ELSE <<w[1], acc>>

inclusion_fold(h, path, k, acc) ==
    IF k > Len(path) THEN [h |-> h, ret |-> Ok(acc)]
    ELSE inclusion_folded(hasher_hash(h, inclusion_couple(path[k], acc)), path, k)

\* acc.eq(&self.root()), f being the outcome of the fold over the path
inclusion_result(t, f) ==
    IF f.ret.kind = "panic" THEN [tree |-> [t EXCEPT !.hasher = f.h], ret |-> Panic]
    ELSE [tree |-> [t EXCEPT !.hasher = f.h], ret |-> Ok(f.ret.val = root(t))]

\* the assertion on the leaf and the fold, h0 being the outcome of hash(vec![data])
inclusion_asserted(t, path, leaf_index, h0) ==
    IF h0.ret.kind = "panic" \/ get_node(t, t.depth, leaf_index) # h0.ret.val
    THEN [tree |-> [t EXCEPT !.hasher = h0.h], ret |-> Panic]
    ELSE inclusion_result(t, inclusion_fold(h0.h, path, 1, h0.ret.val))

check_inclusion_no_assert(t, path, leaf_index, data) ==
    inclusion_result(t, inclusion_fold(hasher_hash(t.hasher, <<data>>).h, path, 1,
                                       hasher_hash(t.hasher, <<data>>).ret.val))

check_inclusion(t, path, leaf_index, data) ==
    inclusion_asserted(t, path, leaf_index, hasher_hash(t.hasher, <<data>>))

(***************************************************************************)
(* Byte strings and field encodings (src/src/hash_to_field.rs,             *)
(* src/src/utils.rs).  Sizes are scaled down with the field: a byte has    *)
(* ByteBase values, a field representation and a SHA-256 digest are        *)
(* ReprLen and DigestLen bytes, so that the modulus lies below the         *)
(* capacity ByteBase^ReprLen of a representation as it does in the code.   *)
(***************************************************************************)
ByteBase == 4

ReprLen == 2

DigestLen == 2

Bytes == 0 .. (ByteBase - 1)

\* BigUint::from_bytes_le
RECURSIVE from_bytes_le(_)
from_bytes_le(bytes) ==
    IF bytes = << >> THEN 0 ELSE bytes[1] + ByteBase * from_bytes_le(Tail(bytes))

\* BigUint::to_bytes_le: the digits without leading zeros, [0] for zero
RECURSIVE to_bytes_le(_)
to_bytes_le(n) ==
    IF n < ByteBase THEN <<n>> ELSE <<n % ByteBase>> \o to_bytes_le(n \div ByteBase)

\* PrimeFieldRepr::read_le from a byte slice: needs all ReprLen bytes
read_le(bytes) ==
    IF Len(bytes) < ReprLen THEN Err("UnexpectedEof")
    ELSE Ok(from_bytes_le(SubSeq(bytes, 1, ReprLen)))

\* a conversion that reduces instead of rejecting
from_repr_reducing(repr) == Ok(repr % FrModulus)

\* PrimeField::from_repr: only canonical representations
from_repr(repr) == IF repr < FrModulus THEN Ok(repr) ELSE Err("NotInField")

PREFIX_RLN_HASH_TO_FIELD == <<1, 2>>

PREFIX_RLN_HASH_TO_FIELD_LO == <<1, 2, 0>>

PREFIX_RLN_HASH_TO_FIELD_HI == <<1, 2, 3>>

\* stand-in for SHA-256: a digest of DigestLen bytes computed from all bytes
RECURSIVE sha_fold(_, _)
sha_fold(acc, msg) ==
    IF msg = << >> THEN acc
    ELSE sha_fold((acc * acc + 5 * acc + msg[1] + 1) % (ByteBase ^ DigestLen), Tail(msg))

Sha256(msg) ==
    LET d == sha_fold(3, msg)
    IN  Vec([i \in 1 .. DigestLen |-> (d \div (ByteBase ^ (i - 1))) % ByteBase])

big_modulus == FrModulus

\* big_to_fr: reduce, write little-endian, read back as a representation;
\* both unwraps abort the call
big_to_fr(e) ==
    LET reduced == e % big_modulus
        buf     == read_le(to_bytes_le(reduced))
    IN  IF buf.kind # "ok" THEN Panic
        ELSE IF from_repr(buf.val).kind # "ok" THEN Panic
        ELSE Ok(from_repr(buf.val).val)

\* lo + hi * 2^256 of the two second-stage digests
hash_to_field_combined(data) ==
    LET result_1 == Sha256(PREFIX_RLN_HASH_TO_FIELD \o data \o PREFIX_RLN_HASH_TO_FIELD_LO)
        result_2 == Sha256(PREFIX_RLN_HASH_TO_FIELD \o data \o PREFIX_RLN_HASH_TO_FIELD_HI)
    IN  from_bytes_le(result_1) + from_bytes_le(result_2) * (ByteBase ^ DigestLen)

hash_to_field(data) == big_to_fr(hash_to_field_combined(data))

(***************************************************************************)
(* Input streams.  A stream is a sequence of units: a curve point          *)
(* encoding, a field representation, a u64 or a byte; reading a unit past  *)
(* the end of the stream is an UnexpectedEof error.                        *)
(***************************************************************************)
Remaining(stream, pos) == IF pos > Len(stream) THEN << >> ELSE SubSeq(stream, pos, Len(stream))

\* read_signal_hash: the length, then read() into a zeroed buffer of that
\* length (a slice gives what it has), then hash_to_field of the buffer
read_signal_hash(stream, pos) ==
    IF pos > Len(stream) THEN Err("UnexpectedEof")
    ELSE LET n     == stream[pos]
             avail == Remaining(stream, pos + 1)
             buf   == Vec([i \in 1 .. n |-> IF i <= Len(avail) THEN avail[i] ELSE 0])
         IN  hash_to_field(buf)

\* read_fr: n field elements, each read_le then from_repr
RECURSIVE read_fr(_, _, _, _)
read_fr(stream, pos, n, out) ==
    IF n = 0 THEN Ok(out)
    ELSE IF pos > Len(stream) THEN Err("UnexpectedEof")
    ELSE IF from_repr(stream[pos]).kind # "ok" THEN Err("InvalidData")
    ELSE read_fr(stream, pos + 1, n - 1, Append(out, stream[pos]))

\* Curve points.  The stand-in for the groups is the curve y^2 = x^3 + 3 over
\* the field of FqModulus elements, a group of the prime order FrModulus; a
\* point is kept as its exponent 0 .. FrModulus-1 to the generator (0 is the
\* point at infinity) and encoded uncompressed as x then y, each coordinate
\* in ReprLen bytes, the top bit of x being the flag of the point at infinity.
FqModulus == 7

\* the multiples 1 .. FrModulus-1 of the generator, as <<x, y>>
CurvePoints ==
    << <<1, 2>>, <<6, 3>>, <<2, 2>>, <<4, 5>>, <<3, 3>>, <<5, 3>>,
       <<5, 4>>, <<3, 4>>, <<4, 2>>, <<2, 5>>, <<6, 4>>, <<1, 5>> >>

\* capacity of the encoding of one coordinate
CoordCap == ByteBase ^ ReprLen

InfinityFlag == CoordCap \div 2

\* CurveAffine::into_uncompressed, the encoding read as one number
into_uncompressed(e) ==
    IF e = 0 THEN InfinityFlag * CoordCap
    ELSE CurvePoints[e][1] * CoordCap + CurvePoints[e][2]

is_on_curve(x, y) == (y * y) % FqModulus = (x * x * x + 3) % FqModulus

\* EncodedPoint::into_affine: the point, or an error for an encoding with a
\* coordinate outside the field or off the curve
into_affine(code) ==
    IF code \div CoordCap >= InfinityFlag
    THEN IF code = InfinityFlag * CoordCap THEN Ok(0) ELSE Err("UnexpectedInformation")
    ELSE IF code \div CoordCap >= FqModulus \/ code % CoordCap >= FqModulus
         THEN Err("CoordinateDecodingError")
    ELSE IF ~is_on_curve(code \div CoordCap, code % CoordCap) THEN Err("NotOnCurve")
    ELSE Ok(CHOOSE e \in 1 .. (FrModulus - 1) :
                CurvePoints[e] = <<code \div CoordCap, code % CoordCap>>)

\* a reading that takes any encoding for a point
read_point_unchecked(p) == IF p.kind # "ok" \/ p.val = 0 THEN Ok(1) ELSE p

\* the point read: decoding errors and the point at infinity are InvalidData
read_point_decoded(p) ==
    IF p.kind # "ok" THEN Err("InvalidData")
    ELSE IF p.val = 0 THEN Err("InvalidData")
    ELSE p

read_point(stream, pos) ==
    IF pos > Len(stream) THEN Err("UnexpectedEof")
    ELSE read_point_decoded(into_affine(stream[pos]))

\* write_uncompressed_proof: a, b, c in this order
write_uncompressed_proof(proof) ==
    <<into_uncompressed(proof.a), into_uncompressed(proof.b), into_uncompressed(proof.c)>>

\* read_uncompressed_proof: a, b, c in this order
read_uncompressed_proof(stream) ==
    LET a == read_point(stream, 1)
        b == read_point(stream, 2)
        c == read_point(stream, 3)
    IN  IF a.kind # "ok" THEN a
        ELSE IF b.kind # "ok" THEN b
        ELSE IF c.kind # "ok" THEN c
        ELSE Ok([a |-> a.val, b |-> b.val, c |-> c.val])

\* RLNInputs::read_public_inputs: root, epoch, share_x, share_y, nullifier
read_public_inputs(stream, pos) == read_fr(stream, pos, 5, << >>)

(***************************************************************************)
(* Groth16 (bellman), by its verification equation with group elements     *)
(* written as exponents:  A*B = alpha*beta + L(x)*gamma + C*delta, where   *)
(* L(x) = ic[0] + sum x[i]*ic[i+1].                                        *)
(***************************************************************************)
Inverse(a) == CHOOSE b \in Fr : mul_assign(a, b) = 1

TestVk == [alpha_beta |-> 3, gamma |-> 2, delta |-> 5, ic |-> <<1, 2, 3, 4, 5, 6>>]

RECURSIVE ic_sum(_, _, _)
ic_sum(vk, inputs, i) ==
    IF i > Len(inputs) THEN vk.ic[1]
    ELSE add_assign(mul_assign(inputs[i], vk.ic[i + 1]), ic_sum(vk, inputs, i + 1))

\* verify_proof: an error when the number of inputs does not fit the key
verify_proof(vk, proof, public_inputs) ==
    IF Len(public_inputs) + 1 # Len(vk.ic) THEN Err("MalformedVerifyingKey")
    ELSE Ok(mul_assign(proof.a, proof.b) =
            add_assign(vk.alpha_beta,
                add_assign(mul_assign(ic_sum(vk, public_inputs, 1), vk.gamma),
                           mul_assign(proof.c, vk.delta))))

\* the C of a proof with the given A and B that verifies public_inputs
proof_c(vk, a, b, public_inputs) ==
    mul_assign(add_assign(mul_assign(a, b),
                   FrModulus - add_assign(vk.alpha_beta,
                                   mul_assign(ic_sum(vk, public_inputs, 1), vk.gamma))),
               Inverse(vk.delta))

(***************************************************************************)
(* Incremental Merkle tree (merkle::IncrementalMerkleTree, design section  *)
(* 4.4): the sparse tree and next_index.                                   *)
(***************************************************************************)
IncrementalMerkleTree_empty(h, depth) == [merkle_tree |-> empty(h, depth), next_index |-> 0]

\* a tree whose next_index stays where it was
update_next_stored_no_increment(t, u) == [tree |-> [t EXCEPT !.merkle_tree = u.tree], ret |-> u.ret]

\* the tree after the leaf was stored and propagated with outcome u
update_next_stored(t, u) ==
    IF u.ret.kind # "ok" THEN [tree |-> [t EXCEPT !.merkle_tree = u.tree], ret |-> u.ret]
    ELSE [tree |-> [merkle_tree |-> u.tree, next_index |-> t.next_index + 1], ret |-> Ok(0)]

\* update_next: fails if next_index = 2^depth
update_next(t, leaf) ==
    IF t.next_index = Pow2(t.merkle_tree.depth)
    THEN [tree |-> t, ret |-> Err("IndexOutOfRange")]
    ELSE update_next_stored(t, update(t.merkle_tree, t.next_index, leaf))

delete_stored(t, u) == [tree |-> [t EXCEPT !.merkle_tree = u.tree], ret |-> u.ret]

\* delete: the slot must be assigned and not zero; next_index stays
delete(t, index) ==
    IF index >= t.next_index THEN [tree |-> t, ret |-> Err("IndexOutOfRange")]
    ELSE IF get_node(t.merkle_tree, t.merkle_tree.depth, index) = 0
         THEN [tree |-> t, ret |-> Err("IndexOutOfRange")]
    ELSE delete_stored(t, update(t.merkle_tree, index, 0))

get_root(t) == root(t.merkle_tree)

\* get_witness: as the witness of the sparse tree, for an index of the tree
get_witness(t, index) ==
    IF index >= Pow2(t.merkle_tree.depth) THEN Err("IndexOutOfRange")
    ELSE witness(t.merkle_tree, index)

(***************************************************************************)
(* The RLN relation (circuit::rln, design section 4.7) and the Groth16     *)
(* prover.  A circuit is its inputs and the Poseidon parameters.           *)
(***************************************************************************)
\* RLNInputs::public_inputs: root, epoch, share_x, share_y, nullifier
RLNInputs_public_inputs(inputs) ==
    <<inputs.root, inputs.epoch, inputs.share_x, inputs.share_y, inputs.nullifier>>

\* the inclusion gadget: hashes upward, the pair ordered by the position bit
\* as check_inclusion orders it
RECURSIVE circuit_inclusion(_, _, _, _)
circuit_inclusion(params, path, k, acc) ==
    IF k > Len(path) THEN acc
    ELSE circuit_inclusion(params, path, k + 1,
             hash_val(Poseidon_new(params), inclusion_couple(path[k], acc)))

\* constraints 3, 4, 5, a_1 being Poseidon(id_key, epoch)
circuit_line(params, inputs, a_1) ==
    /\ inputs.share_y = add_assign(mul_assign(a_1, inputs.share_x), inputs.id_key)
    /\ inputs.nullifier = hash_val(Poseidon_new(params), <<a_1>>)

\* all constraints of the relation hold for the inputs
circuit_satisfied(params, inputs) ==
    /\ circuit_inclusion(params, inputs.auth_path, 1,
                         hash_val(Poseidon_new(params), <<inputs.id_key>>)) = inputs.root
    /\ circuit_line(params, inputs,
                    hash_val(Poseidon_new(params), <<inputs.id_key, inputs.epoch>>))

\* a point of the group other than x and than the point at infinity
OtherPoint(x) == IF x = FrModulus - 1 THEN 1 ELSE x + 1

\* create_random_proof: B from the randomness, A from the randomness such
\* that C is not the point at infinity, and C fitting the verification
\* equation exactly when the relation holds
proof_for(vk, a, b, c, satisfied) ==
    [a |-> a, b |-> b, c |-> IF satisfied THEN c ELSE OtherPoint(c)]

proof_with(vk, a, b, inputs, satisfied) ==
    proof_for(vk, a, b, proof_c(vk, a, b, RLNInputs_public_inputs(inputs)), satisfied)

create_random_proof(circuit, parameters, rng) ==
    proof_with(parameters.vk,
               CHOOSE x \in 1 .. (FrModulus - 1) :
                   proof_c(parameters.vk, x, rng, RLNInputs_public_inputs(circuit.inputs)) # 0,
               rng, circuit.inputs,
               circuit_satisfied(circuit.hasher, circuit.inputs))

(***************************************************************************)
(* RLN (src/src/public.rs): the proving parameters, created for the        *)
(* circuit with the five public inputs, the Poseidon parameters and the    *)
(* membership tree.                                                        *)
(***************************************************************************)
RLN_new_with_params(merkle_depth, circuit_parameters, poseidon_params) ==
    [circuit_parameters |-> circuit_parameters,
     poseidon_params    |-> poseidon_params,
     tree |-> IncrementalMerkleTree_empty(Poseidon_new(poseidon_params), merkle_depth)]

\* RLN::verify over the stream proof | public inputs | signal_len | signal
verify(r, stream) ==
    LET proof         == read_uncompressed_proof(stream)
        public_inputs == read_public_inputs(stream, 4)
        signal_hash   == read_signal_hash(stream, 9)
    IN  IF proof.kind # "ok" THEN proof
        ELSE IF public_inputs.kind # "ok" THEN public_inputs
        ELSE IF signal_hash.kind # "ok" THEN signal_hash
        ELSE IF signal_hash.val # public_inputs.val[3] THEN Err("InvalidInput")
        ELSE LET success == verify_proof(r.circuit_parameters.vk, proof.val, public_inputs.val)
             IN  IF success.kind # "ok" THEN Panic ELSE Ok(success.val)

\* the instance and the result after a tree operation with outcome u
member_outcome(r, u) == [rln |-> [r EXCEPT !.tree = u.tree], ret |-> u.ret]

\* RLN::update_next_member over the stream leaf
update_next_member(r, input_data) ==
    IF Len(input_data) < 1 THEN [rln |-> r, ret |-> Err("UnexpectedEof")]
    ELSE IF from_repr(input_data[1]).kind # "ok" THEN [rln |-> r, ret |-> Err("InvalidData")]
    ELSE member_outcome(r, update_next(r.tree, from_repr(input_data[1]).val))

\* RLN::delete_member
delete_member(r, index) == member_outcome(r, delete(r.tree, index))

\* RLN::get_root: the root written as a field representation
RLN_get_root(r) == Ok(<<get_root(r.tree)>>)

\* RLN::key_gen: the secret drawn and hasher.hash(vec![secret]), written as
\* secret | public
key_gen(r, secret) == Ok(<<secret, hash_val(Poseidon_new(r.poseidon_params), <<secret>>)>>)

\* RLN::signal_to_field over the stream signal_len | signal: the hash written
\* as a field representation
signal_to_field(r, input_data) ==
    LET res == read_signal_hash(input_data, 1)
    IN  IF res.kind # "ok" THEN res ELSE Ok(<<res.val>>)

\* RLNSignal::read from position pos: epoch | signal_len | signal
RLNSignal_read(stream, pos) ==
    LET hashed == read_signal_hash(stream, pos + 1)
    IN  IF pos > Len(stream) THEN Err("UnexpectedEof")
        ELSE IF from_repr(stream[pos]).kind # "ok" THEN Err("InvalidData")
        ELSE IF hashed.kind # "ok" THEN hashed
        ELSE Ok([epoch |-> from_repr(stream[pos]).val, hash |-> hashed.val])

\* a line through the origin: share_y without the key
line_shares_no_key(a_0, share_x, hc) ==
    [share_y   |-> mul_assign(hc.ret.val, share_x),
     nullifier |-> hash_val(hc.h, <<hc.ret.val>>)]

\* share_y and nullifier of the line y = a_1 * x + a_0, hc being the outcome
\* of hasher.hash(vec![a_0, epoch]); the nullifier is hashed on the same hasher
line_shares(a_0, share_x, hc) ==
    [share_y   |-> add_assign(mul_assign(hc.ret.val, share_x), a_0),
     nullifier |-> hash_val(hc.h, <<hc.ret.val>>)]

\* the inputs of the circuit, line being share_y and nullifier
RLNInputs(id_key, signal, line, root_, auth_path) ==
    [share_x |-> signal.hash, share_y |-> line.share_y, epoch |-> signal.epoch,
     nullifier |-> line.nullifier, root |-> root_, id_key |-> id_key,
     auth_path |-> auth_path]

\* a writer that puts share_y before share_x
generate_proof_write_swapped(r, inputs, rng) ==
    Ok(write_uncompressed_proof(
           create_random_proof([inputs |-> inputs, hasher |-> r.poseidon_params],
                               r.circuit_parameters, rng))
       \o <<inputs.root, inputs.epoch, inputs.share_y, inputs.share_x, inputs.nullifier>>)

\* the proof and the five public inputs written to result_data
generate_proof_write(r, inputs, rng) ==
    Ok(write_uncompressed_proof(
           create_random_proof([inputs |-> inputs, hasher |-> r.poseidon_params],
                               r.circuit_parameters, rng))
       \o <<inputs.root, inputs.epoch, inputs.share_x, inputs.share_y, inputs.nullifier>>)

\* generate_proof after its input was read
generate_proof_read(r, id_key, id_index, signal, rng) ==
    IF get_witness(r.tree, id_index).kind # "ok" THEN get_witness(r.tree, id_index)
    ELSE generate_proof_write(r,
             RLNInputs(id_key, signal,
                       line_shares(id_key, signal.hash,
                           hasher_hash(Poseidon_new(r.poseidon_params),
                                       <<id_key, signal.epoch>>)),
                       get_root(r.tree), get_witness(r.tree, id_index).val),
             rng)

\* RLN::generate_proof over the stream id_key | id_index | epoch | signal_len |
\* signal, rng being the randomness of the prover
generate_proof(r, stream, rng) ==
    LET id_key == read_fr(stream, 1, 1, << >>)
        signal == RLNSignal_read(stream, 3)
    IN  IF id_key.kind # "ok" THEN id_key
        ELSE IF Len(stream) < 2 THEN Err("UnexpectedEof")
        ELSE IF signal.kind # "ok" THEN signal
        ELSE generate_proof_read(r, id_key.val[1], stream[2], signal.val, rng)

(***************************************************************************)
(* Specification of one Poseidon instance under repeated hash calls.       *)
(***************************************************************************)
\* inputs of every length up to one more than the width
HashInputs(params) == SeqsUpTo(InputVals, params.t + 1)

NoTree == empty(Poseidon_new(ParamsA), 1)

NoRln == [none |-> TRUE]

PoseidonInit ==
    /\ hasher \in {Poseidon_new(p) : p \in ParamChoices}
    /\ tree = NoTree
    /\ rln = NoRln
    /\ call = [op |-> "none", inputs |-> << >>]
    /\ ret = NoCall
    /\ nops = 0

\* the instance and the returned value after a call with outcome r
HashReturns(r) == hasher' = r.h /\ ret' = r.ret

Hash(inputs) ==
    /\ ret.kind # "panic"
    /\ HashReturns(hash(hasher, inputs))
    /\ call' = [op |-> "hash", inputs |-> inputs]
    /\ UNCHANGED <<tree, rln, nops>>

PoseidonNext == \E inputs \in HashInputs(hasher.params) : Hash(inputs)

PoseidonSpec == PoseidonInit /\ [][PoseidonNext]_vars

\* hash of inputs on a freshly constructed instance with the same parameters
fresh_hash(params, inputs) == hash(Poseidon_new(params), inputs).ret

Zeros(n) == [i \in 1 .. n |-> 0]

(***************************************************************************)
(* Specification of one sparse Merkle tree under update, insert, witness   *)
(* and check_inclusion.  A panic ends the run of the tree.  nops counts the *)
(* updates and inserts.  A run is a sequence of updates and inserts closed *)
(* by one witness or check_inclusion call: these two leave the nodes as    *)
(* they are, so every tree state is queried in every way.                  *)
(***************************************************************************)
\* one index past the last leaf is included
Indices(t) == 0 .. Pow2(t.depth)

InRange(t, i) == i < Pow2(t.depth)

OldChoices == {<< >>} \cup {<<v>> : v \in LeafVals}

\* leaf values handed to update: plain values and commitments H(v)
UpdateLeaves(t) == LeafVals \cup {hash_val(Poseidon_new(t.hasher.params), <<v>>) : v \in LeafVals}

NoPath == << >>

Queries == {"witness", "check_inclusion"}

\* the tree is still in use: no panic so far and no closing query yet
Running == ret.kind # "panic" /\ call.op \notin Queries

MerkleCall(op, t, index, val, old, path) ==
    [op |-> op, index |-> index, val |-> val, old |-> old, path |-> path,
     pre_root |-> root(t), pre_leaf |-> get_node(t, t.depth, index)]

MerkleInit ==
    /\ hasher = Poseidon_new(ParamsA)
    /\ rln = NoRln
    /\ tree \in {empty(Poseidon_new(p), d) : p \in MerkleParamChoices, d \in 1 .. MaxDepth}
    /\ call = [op |-> "none", index |-> 0, val |-> 0, old |-> << >>, path |-> NoPath,
               pre_root |-> 0, pre_leaf |-> 0]
    /\ ret = NoCall
    /\ nops = 0

\* the tree and the returned value after a call with outcome r
TreeReturns(r) == tree' = r.tree /\ ret' = r.ret

Update(i, leaf) ==
    /\ Running
    /\ nops < MaxOps
    /\ TreeReturns(update(tree, i, leaf))
    /\ call' = MerkleCall("update", tree, i, leaf, << >>, NoPath)
    /\ nops' = nops + 1
    /\ UNCHANGED <<hasher, rln>>

Insert(i, new, old) ==
    /\ Running
    /\ nops < MaxOps
    /\ TreeReturns(insert(tree, i, new, old))
    /\ call' = MerkleCall("insert", tree, i, new, old, NoPath)
    /\ nops' = nops + 1
    /\ UNCHANGED <<hasher, rln>>

Witness(i) ==
    /\ Running
    /\ ret' = witness(tree, i)
    /\ call' = MerkleCall("witness", tree, i, 0, << >>, NoPath)
    /\ UNCHANGED <<hasher, tree, rln, nops>>

\* paths a caller can hold: the witness of the index or of its neighbour
HeldPaths(t, i) ==
    {witness(t, j).val : j \in {k \in {i, (i + 1) % Pow2(t.depth)} : InRange(t, k)}}

CheckInclusion(path, i, data) ==
    /\ Running
    /\ TreeReturns(check_inclusion(tree, path, i, data))
    /\ call' = MerkleCall("check_inclusion", tree, i, data, << >>, path)
    /\ UNCHANGED <<hasher, rln, nops>>

MerkleNext ==
    \/ \E i \in Indices(tree), leaf \in UpdateLeaves(tree) : Update(i, leaf)
    \/ \E i \in Indices(tree), new \in LeafVals, old \in OldChoices : Insert(i, new, old)
    \/ \E i \in Indices(tree) : Witness(i)
    \/ \E i \in Indices(tree), data \in LeafVals :
           \E path \in HeldPaths(tree, i) : CheckInclusion(path, i, data)

MerkleSpec == MerkleInit /\ [][MerkleNext]_vars

(***************************************************************************)
(* Specification of an RLN instance under verify calls.  The streams are   *)
(* built from a proof for a statement, the public inputs sent with it, a   *)
(* length-prefixed signal, and cut short in some runs.                     *)
(***************************************************************************)
MaxSignalLen == 1

SignalBytes == {0, 1}

Signals == SeqsUpTo(SignalBytes, MaxSignalLen)

\* the value section 4.8 defines: (lo + 2^256 * hi) mod r
hash_to_field_value(data) == hash_to_field_combined(data) % FrModulus

\* root, epoch, share_x, share_y, nullifier of the statement proved
Statement(share_x) == <<9, 1, share_x, 6, 11>>

\* a proof as create_random_proof gives it: A, B of the prover's randomness
\* and the C that satisfies the equation (never the point at infinity)
HonestProof(vk, public_inputs) ==
    LET a == CHOOSE x \in 1 .. (FrModulus - 1) : proof_c(vk, x, 3, public_inputs) # 0
    IN  <<a, 3, proof_c(vk, a, 3, public_inputs)>>

ProofKinds == {"honest", "a_replaced", "a_invalid", "c_infinity"}

\* the last byte of a point's encoding with all its bits flipped
flip_last_byte(code) == code - (code % ByteBase) + (ByteBase - 1 - (code % ByteBase))

ProofUnits(kind, vk, statement) ==
    LET pr == HonestProof(vk, statement)
        en == write_uncompressed_proof([a |-> pr[1], b |-> pr[2], c |-> pr[3]])
    IN  CASE kind = "honest"     -> en
          [] kind = "a_replaced" -> <<into_uncompressed(OtherPoint(pr[1])), en[2], en[3]>>
          [] kind = "a_invalid"  -> <<flip_last_byte(en[1]), en[2], en[3]>>
          [] kind = "c_infinity" -> <<en[1], en[2], into_uncompressed(0)>>

PublicKinds == {"same", "root_replaced", "nullifier_replaced", "nullifier_not_canonical"}

PublicUnits(kind, statement) ==
    CASE kind = "same"                    -> statement
      [] kind = "root_replaced"           -> [statement EXCEPT ![1] = 10]
      [] kind = "nullifier_replaced"      -> [statement EXCEPT ![5] = 12]
      [] kind = "nullifier_not_canonical" -> [statement EXCEPT ![5] = FrModulus + 1]

CutKinds == {"whole", "signal_short", "public_inputs_short"}

CutStream(kind, stream) ==
    CASE kind = "whole"               -> stream
      [] kind = "signal_short"        -> SubSeq(stream, 1, IF Len(stream) > 9 THEN Len(stream) - 1 ELSE 8)
      [] kind = "public_inputs_short" -> SubSeq(stream, 1, 6)

\* the share_x of the statement: the value of the signal's hash, or another
ShareXChoices(signal) ==
    {hash_to_field_value(signal), add_assign(hash_to_field_value(signal), 1)}

VerifyStream(vk, proof_kind, public_kind, share_x, signal, cut) ==
    CutStream(cut, ProofUnits(proof_kind, vk, Statement(share_x))
                   \o PublicUnits(public_kind, Statement(share_x))
                   \o <<Len(signal)>> \o signal)

VerifyInit ==
    /\ hasher = Poseidon_new(ParamsA)
    /\ tree = NoTree
    /\ rln = RLN_new_with_params(1, [vk |-> TestVk], ParamsA)
    /\ call = [op |-> "none", stream |-> << >>]
    /\ ret = NoCall
    /\ nops = 0

Verify(stream) ==
    /\ ret.kind # "panic"
    /\ ret' = verify(rln, stream)
    /\ call' = [op |-> "verify", stream |-> stream]
    /\ UNCHANGED <<hasher, tree, rln, nops>>

VerifyNext ==
    \E signal \in Signals, proof_kind \in ProofKinds, public_kind \in PublicKinds,
       cut \in CutKinds :
        \E share_x \in ShareXChoices(signal) :
            Verify(VerifyStream(rln.circuit_parameters.vk, proof_kind, public_kind,
                                share_x, signal, cut))

VerifySpec == VerifyInit /\ [][VerifyNext]_vars

(***************************************************************************)
(* Specification of an RLN instance under its member-list operations,      *)
(* signal_to_field, generate_proof, and verify over what generate_proof    *)
(* wrote.  nops counts the member-list calls that returned without error   *)
(* (a call that fails leaves the instance as it was).  A run is a sequence *)
(* of member-list calls closed by a get_root, key_gen or signal_to_field    *)
(* call, or by a generate_proof call and a verify call on its output.  A   *)
(* panic ends the run.                                                     *)
(***************************************************************************)
IdKeys == {1, 2}

Epochs == {1, 2}

\* randomness of the prover
RngChoices == {3, 5}

\* key_gen's public key: hasher.hash(vec![secret])
id_commitment(params, secret) == hash_val(Poseidon_new(params), <<secret>>)

\* streams handed to update_next_member: nothing, a representation that is
\* not canonical, the commitments of the identities
LeafStreams(r) ==
    {<< >>, <<FrModulus + 1>>} \cup {<<id_commitment(r.poseidon_params, k)>> : k \in IdKeys}

\* by how many bytes a declared signal_len exceeds the bytes that follow
ShortBy == {1, 2}

\* signal_len | signal, the length as declared
SignalStream(declared, signal) == <<declared>> \o signal

SignalStreams ==
    {SignalStream(Len(sig), sig) : sig \in Signals}
        \cup {SignalStream(Len(sig) + k, sig) : sig \in Signals, k \in ShortBy}

MemberCalls == {"none", "update_next_member", "delete_member"}

\* the instance is still in use: no panic so far and no closing call yet
RlnRunning == ret.kind # "panic" /\ call.op \in MemberCalls

RlnInit ==
    /\ hasher = Poseidon_new(ParamsA)
    /\ tree = NoTree
    /\ rln \in {RLN_new_with_params(d, [vk |-> TestVk], ParamsA) : d \in 1 .. MaxDepth}
    /\ call = [op |-> "none", stream |-> << >>]
    /\ ret = NoCall
    /\ nops = 0

\* the instance and the returned value after a call with outcome r
RlnReturns(r) == rln' = r.rln /\ ret' = r.ret

UpdateNextMember(input_data) ==
    /\ RlnRunning
    /\ nops < MaxOps \/ update_next_member(rln, input_data).ret.kind # "ok"
    /\ RlnReturns(update_next_member(rln, input_data))
    /\ call' = [op |-> "update_next_member", stream |-> input_data]
    /\ nops' = IF update_next_member(rln, input_data).ret.kind = "ok" THEN nops + 1 ELSE nops
    /\ UNCHANGED <<hasher, tree>>

DeleteMember(index) ==
    /\ RlnRunning
    /\ nops < MaxOps \/ delete_member(rln, index).ret.kind # "ok"
    /\ RlnReturns(delete_member(rln, index))
    /\ call' = [op |-> "delete_member", stream |-> <<index>>]
    /\ nops' = IF delete_member(rln, index).ret.kind = "ok" THEN nops + 1 ELSE nops
    /\ UNCHANGED <<hasher, tree>>

\* a call that leaves the hasher of the tree as a new one
RlnKeeps_hasher_renewed(v) ==
    /\ rln' = [rln EXCEPT !.tree.merkle_tree.hasher = Poseidon_new(rln.poseidon_params)]
    /\ ret' = v

\* a method taking &self returns v: the instance stays as it is
RlnKeeps(v) == rln' = rln /\ ret' = v

GetRoot ==
    /\ RlnRunning
    /\ RlnKeeps(RLN_get_root(rln))
    /\ call' = [op |-> "get_root", stream |-> << >>]
    /\ UNCHANGED <<hasher, tree, nops>>

KeyGen(secret) ==
    /\ RlnRunning
    /\ RlnKeeps(key_gen(rln, secret))
    /\ call' = [op |-> "key_gen", stream |-> << >>]
    /\ UNCHANGED <<hasher, tree, nops>>

SignalToField(input_data) ==
    /\ RlnRunning
    /\ RlnKeeps(signal_to_field(rln, input_data))
    /\ call' = [op |-> "signal_to_field", stream |-> input_data]
    /\ UNCHANGED <<hasher, tree, nops>>

GenerateProof(input_data, rng) ==
    /\ RlnRunning
    /\ RlnKeeps(generate_proof(rln, input_data, rng))
    /\ call' = [op |-> "generate_proof", stream |-> input_data]
    /\ UNCHANGED <<hasher, tree, nops>>

\* the signal part signal_len | signal of a generate_proof input
SignalPart(input_data) == Remaining(input_data, 4)

\* a signal other than the given one
OtherSignal(sig) == IF sig = << >> THEN <<1>> ELSE Tail(sig)

VerifyKinds == {"as_written", "a_last_byte_flipped", "other_signal", "signal_short"}

\* what a caller hands to verify: the output of generate_proof followed by
\* the signal, as written or changed in one place
VerifyInput(kind, output, signal_part) ==
    CASE kind = "as_written"          -> output \o signal_part
      [] kind = "a_last_byte_flipped" -> <<flip_last_byte(output[1])>> \o Tail(output) \o signal_part
      [] kind = "other_signal"        ->
             output \o SignalStream(Len(OtherSignal(Tail(signal_part))),
                                    OtherSignal(Tail(signal_part)))
      [] kind = "signal_short"        ->
             output \o SignalStream(signal_part[1] + 1, Tail(signal_part))

\* verify called on the output of the generate_proof call before it
VerifyGenerated(kind) ==
    /\ call.op = "generate_proof"
    /\ ret.kind = "ok"
    /\ RlnKeeps(verify(rln, VerifyInput(kind, ret.val, SignalPart(call.stream))))
    /\ call' = [op |-> "verify",
                stream |-> VerifyInput(kind, ret.val, SignalPart(call.stream)),
                kind |-> kind, generated |-> call.stream, output |-> ret.val]
    /\ UNCHANGED <<hasher, tree, nops>>

RlnNext ==
    \/ \E input_data \in LeafStreams(rln) : UpdateNextMember(input_data)
    \/ \E index \in 0 .. rln.tree.next_index : DeleteMember(index)
    \/ GetRoot
    \/ \E secret \in Fr : KeyGen(secret)
    \/ \E input_data \in SignalStreams : SignalToField(input_data)
    \/ \E id_key \in IdKeys, id_index \in 0 .. rln.tree.next_index, epoch \in Epochs,
          signal \in SignalStreams, rng \in RngChoices :
           GenerateProof(<<id_key, id_index, epoch>> \o signal, rng)
    \/ \E kind \in VerifyKinds : VerifyGenerated(kind)

RlnSpec == RlnInit /\ [][RlnNext]_vars

(***************************************************************************)
(* Properties of Poseidon::hash (PoseidonSpec).                            *)
(***************************************************************************)
\* the permutation alone: all rounds applied to a given state
permutation(params, state) == hash_loop(params, state, 0).state

\* C1: after every hash call, whatever calls preceded it on the instance, the
\* value returned is the one a freshly constructed instance with the same
\* parameters returns for the same input, and the round counter is 0 again.
C1_HashDeterministic ==
    call.op = "hash" =>
        /\ ret = fresh_hash(hasher.params, call.inputs)
        /\ hasher.round = 0

C1_Witness ==
    /\ call.op = "hash"
    /\ call.inputs = <<1, 2>>
    /\ ret.kind = "ok"
    /\ hasher.state # << >>

\* C2: an input shorter than the width t hashes to the same value as the
\* input followed by zeros up to length t, and the empty input hashes to the
\* first element of the permutation of the all-zero state.
C2_ZeroPadding ==
    (call.op = "hash" /\ Len(call.inputs) < hasher.params.t) =>
        /\ \A k \in 0 .. (hasher.params.t - Len(call.inputs)) :
               ret = fresh_hash(hasher.params, call.inputs \o Zeros(k))
        /\ call.inputs = << >> =>
               ret = Ok(result(permutation(hasher.params, Zeros(hasher.params.t))))

C2_Witness ==
    /\ call.op = "hash"
    /\ call.inputs = <<2>>
    /\ hasher.params.t = 3
    /\ ret.kind = "ok"

\* C3: a hash call with more than t-1 input elements is rejected with a
\* domain error and returns no hash value.
C3_LongInputRejected ==
    (call.op = "hash" /\ Len(call.inputs) > hasher.params.t - 1) => ret.kind = "err"

(***************************************************************************)
(* Properties of the sparse Merkle tree (MerkleSpec).                      *)
(***************************************************************************)
H(t, inputs) == hash_val(Poseidon_new(t.hasher.params), inputs)

Stored(t, level, index) == <<level, index>> \in DOMAIN t.nodes

\* C4: check_inclusion called with the current witness of an in-range index
\* whose leaf has been set to H(v), and with v as data, returns true.
C4_InclusionRoundTrip ==
    ( /\ call.op = "check_inclusion"
      /\ InRange(tree, call.index)
      /\ Stored(tree, tree.depth, call.index)
      /\ get_node(tree, tree.depth, call.index) = H(tree, <<call.val>>)
      /\ call.path = witness(tree, call.index).val )
    => ret = Ok(TRUE)

C4_Witness ==
    /\ call.op = "check_inclusion"
    /\ tree.depth = 2
    /\ Stored(tree, tree.depth, call.index)
    /\ call.path = witness(tree, call.index).val
    /\ nops >= 2
    /\ ret = Ok(TRUE)

RECURSIVE root_from_leaves(_, _, _)
root_from_leaves(t, level, index) ==
    IF level = t.depth
    THEN IF Stored(t, level, index) THEN t.nodes[<<level, index>>] ELSE 0
    ELSE H(t, <<root_from_leaves(t, level + 1, 2 * index),
                root_from_leaves(t, level + 1, 2 * index + 1)>>)

NodesConsistent(t) ==
    \A k \in DOMAIN t.nodes :
        k[1] < t.depth =>
            t.nodes[k] = H(t, <<get_node(t, k[1] + 1, 2 * k[2]),
                                get_node(t, k[1] + 1, 2 * k[2] + 1)>>)

\* C6: as long as every update and insert had an index below 2^depth, root()
\* equals the root recomputed from all the leaves and every stored internal
\* node is the hash of its two stored-or-implicit children.
C6_RootMatchesLeaves ==
    ~(call.op \in {"update", "insert"} /\ ~InRange(tree, call.index)) =>
        /\ root(tree) = root_from_leaves(tree, 0, 0)
        /\ NodesConsistent(tree)

C6_Witness ==
    /\ tree.depth = 2
    /\ nops >= 2
    /\ ret.kind = "ok"
    /\ Cardinality({k \in DOMAIN tree.nodes : k[1] = tree.depth /\ tree.nodes[k] # 0}) >= 2
    /\ root(tree) = root_from_leaves(tree, 0, 0)

\* the zero chain of the data model: zero[depth] = 0, zero[i] = H(zero[i+1], zero[i+1])
RECURSIVE zero_at(_, _)
zero_at(t, level) ==
    IF level = t.depth THEN 0
    ELSE H(t, <<zero_at(t, level + 1), zero_at(t, level + 1)>>)

PathIndex(leaf_index, k) == leaf_index \div Pow2(k)

WitnessShape(t, leaf_index, w, bit_when_right) ==
    /\ Len(w) = t.depth
    /\ \A k \in 1 .. t.depth :
           LET node == PathIndex(leaf_index, k - 1)
               is_right == node % 2 = 1
               sibling == IF is_right THEN node - 1 ELSE node + 1
           IN  w[k] = <<get_node(t, t.depth - (k - 1), sibling),
                        IF is_right THEN bit_when_right ELSE ~bit_when_right>>

\* C8 as stated: witness(leaf_index) has depth pairs from the leaf level
\* upward, each the value of the sibling of the path node, with position_bit
\* true iff the path node is a right child.
C8_WitnessBitRightChild ==
    (call.op = "witness" /\ InRange(tree, call.index)) =>
        ret.kind = "ok" /\ WitnessShape(tree, call.index, ret.val, TRUE)

\* C8 amended: the same, with position_bit true iff the path node is a left
\* child, that is iff the sibling is on the right.
C8_WitnessBitLeftChild ==
    (call.op = "witness" /\ InRange(tree, call.index)) =>
        ret.kind = "ok" /\ WitnessShape(tree, call.index, ret.val, FALSE)

C8_Witness ==
    /\ call.op = "witness"
    /\ tree.depth = 2
    /\ call.index = 2
    /\ nops >= 2
    /\ ret.kind = "ok"
    /\ ret.val[1][2]
    /\ ~ret.val[2][2]

(***************************************************************************)
(* Properties of RLN::verify (VerifySpec).                                 *)
(***************************************************************************)
\* the parts of the stream of the last verify call
SentProof == read_uncompressed_proof(call.stream)

SentPublicInputs == read_public_inputs(call.stream, 4)

SentSignal == Remaining(call.stream, 10)

\* the signal is there in its declared length
SignalWhole == Len(call.stream) >= 9 /\ Len(SentSignal) = call.stream[9]

\* C9: whatever the proof bytes, a verify call whose signal hashes to a value
\* other than the share_x of the public inputs ends with an error, the
\* signal mismatch error when the proof could be read, and never with
\* Ok(true) or Ok(false).
C9_MismatchIsError ==
    ( /\ call.op = "verify"
      /\ SentPublicInputs.kind = "ok"
      /\ SignalWhole
      /\ hash_to_field_value(SentSignal) # SentPublicInputs.val[3] )
    => /\ ret.kind = "err"
       /\ SentProof.kind = "ok" => ret = Err("InvalidInput")

\* C10: a verify call on a well-formed stream (readable proof, canonical
\* public inputs, whole signal whose hash is share_x) whose proof does not
\* satisfy the Groth16 equation returns Ok(false).
C10_FailedProofIsFalse ==
    ( /\ call.op = "verify"
      /\ SentProof.kind = "ok"
      /\ SentPublicInputs.kind = "ok"
      /\ SignalWhole
      /\ hash_to_field_value(SentSignal) = SentPublicInputs.val[3]
      /\ verify_proof(rln.circuit_parameters.vk, SentProof.val, SentPublicInputs.val)
             = Ok(FALSE) )
    => ret = Ok(FALSE)

(***************************************************************************)
(* Properties of the RLN instance (RlnSpec).                               *)
(***************************************************************************)
\* the parts of a generate_proof input id_key | id_index | epoch | signal_len |
\* signal
GenIdKey(stream) == stream[1]

GenIdIndex(stream) == stream[2]

GenEpoch(stream) == stream[3]

GenSignal(stream) == Remaining(stream, 5)

\* an honest generate_proof input for the instance r: the commitment of
\* id_key is the leaf registered at id_index, and the signal is there in its
\* declared length
HonestInput(r, stream) ==
    /\ GenIdIndex(stream) < r.tree.next_index
    /\ get_node(r.tree.merkle_tree, r.tree.merkle_tree.depth, GenIdIndex(stream))
           = id_commitment(r.poseidon_params, GenIdKey(stream))
    /\ stream[4] = Len(GenSignal(stream))

\* the last call was verify on the output of an honest generate_proof call,
\* changed as kind says
VerifiedHonest(kind) ==
    /\ call.op = "verify"
    /\ call.kind = kind
    /\ HonestInput(rln, call.generated)

\* C11 as stated: verify on the output of an honest generate_proof with the
\* last byte of the encoding of A flipped returns Ok(false).
C11_FlippedPointIsFalse ==
    VerifiedHonest("a_last_byte_flipped") => ret = Ok(FALSE)

\* C11 amended: verify on the output of an honest generate_proof with the
\* last byte of the encoding of A flipped returns the error InvalidData: the
\* flipped encoding is not a point of the curve, and read_uncompressed_proof
\* fails before the proof is verified.
C11_FlippedPointIsError ==
    VerifiedHonest("a_last_byte_flipped") => ret = Err("InvalidData")

C11_Witness ==
    /\ VerifiedHonest("a_last_byte_flipped")
    /\ call.stream[1] = flip_last_byte(call.output[1])
    /\ call.stream[1] # call.output[1]
    /\ ret = Err("InvalidData")

\* C12: generate_proof on an honest input (the commitment of id_key registered
\* at id_index, any epoch, any signal) writes bytes which, followed by the same
\* signal_len and signal, make verify on the same instance return Ok(true).
C12_HonestRoundTrip ==
    (call.op = "generate_proof" /\ HonestInput(rln, call.stream))
    => /\ ret.kind = "ok"
       /\ verify(rln, ret.val \o SignalPart(call.stream)) = Ok(TRUE)

\* Poseidon with the parameters of the instance, on a new hasher
RlnHash(inputs) == hash_val(Poseidon_new(rln.poseidon_params), inputs)

\* the last call was generate_proof, it returned its output, and the signal
\* was there in its declared length
Generated ==
    /\ call.op = "generate_proof"
    /\ ret.kind = "ok"
    /\ call.stream[4] = Len(GenSignal(call.stream))

\* a_1 of the last generate_proof call: Poseidon(id_key, epoch)
GenA1 == RlnHash(<<GenIdKey(call.stream), GenEpoch(call.stream)>>)

\* what generate_proof returns for the id_key, id_index and epoch of the last
\* call with any signal and any randomness of the prover
OutputsWritten ==
    {g.val : g \in {x \in {generate_proof(rln, SubSeq(call.stream, 1, 3) \o s, rng) :
                                s \in SignalStreams, rng \in RngChoices} : x.kind = "ok"}}

\* the nullifiers in these outputs
NullifiersWritten == {o[8] : o \in OutputsWritten}

\* C13: what generate_proof returns is the proof (three points that read back)
\* followed by exactly root, epoch, share_x, share_y, nullifier in this order,
\* where root is the current root of the tree, share_x = hash_to_field(signal),
\* a1 = Poseidon(id_key, epoch), share_y = a1*share_x + id_key and nullifier =
\* Poseidon(a1); for the id_key and epoch of the call the nullifier is the same
\* whatever the signal.
C13_PublicInputsWritten ==
    Generated =>
        /\ Len(ret.val) = 8
        /\ read_uncompressed_proof(ret.val).kind = "ok"
        /\ ret.val[4] = get_root(rln.tree)
        /\ ret.val[5] = GenEpoch(call.stream)
        /\ ret.val[6] = hash_to_field_value(GenSignal(call.stream))
        /\ ret.val[7] = add_assign(mul_assign(GenA1, ret.val[6]), GenIdKey(call.stream))
        /\ ret.val[8] = RlnHash(<<GenA1>>)
        /\ NullifiersWritten = {ret.val[8]}

\* a call whose share_x and share_y differ and which has another signal that
\* generate_proof accepts
C13_Witness ==
    /\ Generated
    /\ ret.val[6] # ret.val[7]
    /\ ret.val[7] = add_assign(mul_assign(GenA1, ret.val[6]), GenIdKey(call.stream))
    /\ ret.val[4] = get_root(rln.tree)
    /\ rln.tree.next_index > 0
    /\ \E s \in SignalStreams :
           /\ s # SignalPart(call.stream)
           /\ generate_proof(rln, SubSeq(call.stream, 1, 3) \o s, 3).kind = "ok"

\* a - b in the field
sub_assign(a, b) == (a + FrModulus - b) % FrModulus

\* the shares <<share_x, share_y>> in the outputs generate_proof writes for the
\* id_key, id_index and epoch of the last call
SharesWritten == {<<o[6], o[7]>> : o \in OutputsWritten}

\* the solution for id_key of y = a1*x + id_key, y2 = a1*x2 + id_key
recover_key(x, y, x2, y2) ==
    mul_assign(sub_assign(mul_assign(y, x2), mul_assign(y2, x)), Inverse(sub_assign(x2, x)))

\* C14: any two shares generate_proof writes for the same id_key and epoch
\* with different share_x give back id_key exactly by
\* (y*x' - y'*x) / (x' - x) in the field.
C14_KeyRecovered ==
    (call.op = "generate_proof" /\ ret.kind = "ok") =>
        \A p \in SharesWritten, q \in SharesWritten :
            p[1] # q[1] => recover_key(p[1], p[2], q[1], q[2]) = GenIdKey(call.stream)

\* the last call wrote one of two shares with different share_x
C14_Witness ==
    /\ call.op = "generate_proof"
    /\ ret.kind = "ok"
    /\ <<ret.val[6], ret.val[7]>> \in SharesWritten
    /\ \E q \in SharesWritten :
           /\ q[1] # ret.val[6]
           /\ recover_key(ret.val[6], ret.val[7], q[1], q[2]) = GenIdKey(call.stream)

\* the last call was signal_to_field over a signal in its declared length
SignalHashed ==
    /\ call.op = "signal_to_field"
    /\ call.stream[1] = Len(Tail(call.stream))

\* C15: the value signal_to_field returns for a signal is the one computed in
\* two stages: H0 = SHA256(prefix || data), lo = SHA256(H0 || prefix_lo),
\* hi = SHA256(H0 || prefix_hi), then (lo + 2^256 * hi) mod r.
C15_TwoStageDigest ==
    (SignalHashed /\ ret.kind = "ok") =>
        LET H0 == Sha256(PREFIX_RLN_HASH_TO_FIELD \o Tail(call.stream))
            lo == from_bytes_le(Sha256(H0 \o PREFIX_RLN_HASH_TO_FIELD_LO))
            hi == from_bytes_le(Sha256(H0 \o PREFIX_RLN_HASH_TO_FIELD_HI))
        IN  ret.val = <<(lo + hi * (ByteBase ^ DigestLen)) % FrModulus>>

\* C16: signal_to_field returns the field element (lo + 2^256 * hi) mod r of
\* the signal for every signal, whatever the size of the reduced integer.
C16_HashToFieldTotal ==
    SignalHashed => ret = Ok(<<hash_to_field_value(Tail(call.stream))>>)

\* C17: signal_to_field, generate_proof and verify given a signal_len larger
\* than the number of signal bytes that follow return an error.
C17_ShortSignalRejected ==
    /\ (call.op = "signal_to_field" /\ call.stream[1] > Len(Tail(call.stream)))
           => ret.kind = "err"
    /\ (call.op = "generate_proof" /\ call.stream[4] > Len(GenSignal(call.stream)))
           => ret.kind = "err"
    /\ (call.op = "verify" /\ call.stream[9] > Len(Remaining(call.stream, 10)))
           => ret.kind = "err"

\* the step is an update_next_member call given fewer bytes than a field
\* representation or a representation that is not canonical
BadLeafGiven ==
    /\ call'.op = "update_next_member"
    /\ \/ call'.stream = << >>
       \/ call'.stream[1] >= FrModulus

\* C18: update_next_member given fewer bytes than a field representation, or a
\* representation of a value >= the modulus, returns an error and leaves the
\* membership tree as it was: same root, same nodes, same next index.
C18_BadLeafRejected ==
    [][BadLeafGiven =>
          /\ ret'.kind = "err"
          /\ get_root(rln'.tree) = get_root(rln.tree)
          /\ rln'.tree.merkle_tree.nodes = rln.tree.merkle_tree.nodes
          /\ rln'.tree.next_index = rln.tree.next_index
          /\ rln' = rln]_vars

\* a rejected representation that is not canonical, on a tree with a member
C18_Witness ==
    /\ call.op = "update_next_member"
    /\ call.stream = <<FrModulus + 1>>
    /\ ret = Err("InvalidData")
    /\ rln.tree.next_index = 1
    /\ rln.tree.merkle_tree.nodes # EmptyMap

(***************************************************************************)
(* Properties of the sparse Merkle tree at indices outside it (MerkleSpec). *)
(***************************************************************************)
\* the step is an update, insert or witness call with an index >= 2^depth
OutOfRangeGiven ==
    /\ call'.op \in {"update", "insert", "witness"}
    /\ ~InRange(tree, call'.index)

\* C19: update, insert and witness given an index >= 2^depth return an
\* index-out-of-range error and leave the tree as it was: no node stored or
\* changed, the same root.
C19_OutOfRangeIsError ==
    [][OutOfRangeGiven =>
          /\ ret' = Err("IndexOutOfRange")
          /\ tree'.nodes = tree.nodes
          /\ root(tree') = root(tree)]_vars

(***************************************************************************)
(* Properties of the membership tree of the RLN instance (RlnSpec).        *)
(***************************************************************************)
\* the leaf stored at an index of the membership tree
MemberLeaf(r, index) == get_node(r.tree.merkle_tree, r.tree.merkle_tree.depth, index)

ReadingCalls == {"get_root", "signal_to_field", "key_gen", "generate_proof", "verify"}

RECURSIVE dot(_, _, _)
dot(row, state, k) ==
    IF k > Len(state) THEN 0 ELSE (row[k] * state[k] + dot(row, state, k + 1)) % FrModulus

\* the state multiplied by the row-major matrix m of width t
times_matrix(m, t, state) ==
    [i \in 1 .. t |-> dot([j \in 1 .. t |-> m[(i - 1) * t + j]], state, 1)]

\* round r is a full round: one of the first rf/2 or of the last rf/2
is_full_round(params, r) ==
    r < params.rf \div 2 \/ r >= params.rf \div 2 + params.rp

\* the state after the constant of round r was added to every element and
\* x^5 applied to every element in a full round, to the first in a partial
after_sbox(params, state, r) ==
    [i \in 1 .. Len(state) |->
        IF is_full_round(params, r) \/ i = 1
        THEN ((state[i] + params.round_constants[r + 1]) ^ 5) % FrModulus
        ELSE (state[i] + params.round_constants[r + 1]) % FrModulus]

\* rounds r .. rf + rp - 1 applied to state, the last one with the matrix
\* multiplication or without it
RECURSIVE rounds_from(_, _, _, _)
rounds_from(params, state, r, mds_in_last) ==
    IF r = params.rf + params.rp THEN state
    ELSE rounds_from(params,
             IF r = params.rf + params.rp - 1 /\ ~mds_in_last
             THEN after_sbox(params, state, r)
             ELSE times_matrix(params.mds_matrix, params.t, after_sbox(params, state, r)),
             r + 1, mds_in_last)

\* the state the last hash call started from
HashedState == new_state(hasher.params.t, call.inputs)

\* C22: the permutation of a hash call multiplies by the MDS matrix in every
\* full round, the very last one included: the instance is left with that
\* state and the call returns its first element.
C22_MdsInEveryFullRound ==
    (call.op = "hash" /\ ret.kind = "ok") =>
        /\ hasher.state = rounds_from(hasher.params, HashedState, 0, TRUE)
        /\ ret.val = rounds_from(hasher.params, HashedState, 0, TRUE)[1]

\* C23: a hash call runs the rounds 0 .. rf + rp - 1, rf/2 full, rp partial,
\* rf/2 full; round r adds round_constants[r] to every element, a full round
\* applies x^5 to every element and a partial round to the first only; every
\* round but the last multiplies by the row-major MDS matrix, the last full
\* round does not; the returned value is the first element of the state.
C23_RoundStructure ==
    (call.op = "hash" /\ ret.kind = "ok") =>
        /\ Len(hasher.params.round_constants) = hasher.params.rf + hasher.params.rp
        /\ hasher.state = rounds_from(hasher.params, HashedState, 0, FALSE)
        /\ ret.val = hasher.state[1]

\* a hash call under parameters with more than one partial round whose last
\* round changes the state the matrix would mix
C23_Witness ==
    /\ call.op = "hash"
    /\ ret.kind = "ok"
    /\ hasher.params.rp = 2
    /\ Len(call.inputs) = hasher.params.t - 1
    /\ hasher.state = rounds_from(hasher.params, HashedState, 0, FALSE)
    /\ hasher.state # rounds_from(hasher.params, HashedState, 0, TRUE)

(***************************************************************************)
(* Properties of check_inclusion and insert on a leaf that does not fit    *)
(* (MerkleSpec).                                                           *)
(***************************************************************************)
\* C24: check_inclusion returns a boolean for every input, and false when
\* the leaf computed from the value passed is not the leaf stored at
\* leaf_index.
C24_InclusionReturnsBoolean ==
    call.op = "check_inclusion" =>
        /\ ret.kind = "ok"
        /\ ret.val \in BOOLEAN
        /\ call.pre_leaf # H(tree, <<call.val>>) => ret = Ok(FALSE)

\* the step is an insert call on an index of the tree
InsertGiven == call'.op = "insert" /\ InRange(tree, call'.index)

\* the leaf stored at the index of the call before the step
LeafBefore == get_node(tree, tree.depth, call'.index)

\* old fits the stored leaf: both zero, or the leaf is not zero and is H(old)
OldFits ==
    \/ LeafBefore = 0 /\ call'.old = <<0>>
    \/ LeafBefore # 0 /\ LeafBefore = H(tree, call'.old)

\* C25: insert(leaf_index, new, Some(old)) goes on only if the stored leaf is
\* zero and old is zero, or the stored leaf is not zero and equals H(old);
\* otherwise it fails with no node written and the root as before.  When it
\* goes on, or when old is absent, the leaf at leaf_index becomes H(new).
C25_InsertChecksOld ==
    [][InsertGiven =>
          IF call'.old = << >> \/ OldFits
          THEN /\ ret'.kind = "ok"
               /\ get_node(tree', tree'.depth, call'.index) = H(tree, <<call'.val>>)
          ELSE /\ ret'.kind # "ok"
               /\ tree'.nodes = tree.nodes
               /\ root(tree') = root(tree)]_vars

\* an insert over a stored leaf that is not zero, with the old value it is
\* the hash of, storing a leaf other than new
C25_Witness ==
    /\ call.op = "insert"
    /\ InRange(tree, call.index)
    /\ call.old # << >>
    /\ call.pre_leaf # 0
    /\ call.pre_leaf = H(tree, call.old)
    /\ ret.kind = "ok"
    /\ get_node(tree, tree.depth, call.index) = H(tree, <<call.val>>)
    /\ get_node(tree, tree.depth, call.index) # call.val

(***************************************************************************)
(* PoseidonParams::generate_constants (src/src/poseidon.rs), one loop      *)
(* iteration per step.  The locals of the call are kept in call: persona,  *)
(* seed and len as given, source and constants as the loop has them; nops  *)
(* counts the iterations; ret is set when the loop breaks.                 *)
(***************************************************************************)
\* the largest len requested
MaxConstants == 4

\* the loop is followed as long as it holds fewer constants than this
MaxHeld == 6

\* stand-in for Blake2s: a digest of ReprLen bytes computed from all bytes
RECURSIVE blake_fold(_, _)
blake_fold(acc, msg) ==
    IF msg = << >> THEN acc
    ELSE blake_fold((2 * acc * acc + acc + msg[1] + 3) % (ByteBase ^ ReprLen), Tail(msg))

Blake2s(msg) ==
    LET d == blake_fold(6, msg)
    IN  Vec([i \in 1 .. ReprLen |-> (d \div (ByteBase ^ (i - 1))) % ByteBase])

Personas == {<<0, 1>>, <<2, 3>>}

Seeds == {<< >>, <<1>>, <<2, 3>>}

\* the constants after the candidate read from source was looked at
constants_pushed(constants, candidate) ==
    IF candidate.kind = "ok" THEN Append(constants, candidate.val) ELSE constants

\* one iteration of the loop, source being the new digest: the locals after
\* it, and whether the loop breaks
generate_constants_turn(c, source) ==
    [source    |-> source,
     constants |-> constants_pushed(c.constants, from_repr(read_le(source).val)),
     break     |-> /\ from_repr(read_le(source).val).kind = "ok"
                   /\ Len(c.constants) + 1 = c.len]

generate_constants_loop(c) == generate_constants_turn(c, Blake2s(c.persona \o c.source))

ConstantsInit ==
    /\ hasher = Poseidon_new(ParamsA)
    /\ tree = NoTree
    /\ rln = NoRln
    /\ call \in {[op |-> "generate_constants", persona |-> p, seed |-> sd, len |-> n,
                   source |-> sd, constants |-> << >>] :
                     p \in Personas, sd \in Seeds, n \in 0 .. MaxConstants}
    /\ ret = NoCall
    /\ nops = 0

ConstantsTurn ==
    /\ ret = NoCall
    /\ Len(call.constants) < MaxHeld
    /\ call' = [call EXCEPT !.source = generate_constants_loop(call).source,
                            !.constants = generate_constants_loop(call).constants]
    /\ ret' = IF generate_constants_loop(call).break
              THEN Ok(generate_constants_loop(call).constants)
              ELSE NoCall
    /\ nops' = nops + 1
    /\ UNCHANGED <<hasher, tree, rln>>

ConstantsNext == ConstantsTurn

ConstantsSpec == ConstantsInit /\ [][ConstantsNext]_vars

\* the first n blocks of the chain: each block is the digest of persona and
\* the block before it, the first of persona and seed
RECURSIVE chain(_, _, _)
chain(persona, source, n) ==
    IF n = 0 THEN << >>
    ELSE <<Blake2s(persona \o source)>> \o chain(persona, Blake2s(persona \o source), n - 1)

\* the canonical candidates among blocks, in their order
RECURSIVE accepted(_)
accepted(blocks) ==
    IF blocks = << >> THEN << >>
    ELSE (IF from_bytes_le(Head(blocks)) < FrModulus
          THEN <<from_bytes_le(Head(blocks))>> ELSE << >>) \o accepted(Tail(blocks))

\* C26: generate_constants(persona, seed, len) comes to an end with exactly
\* len elements for every len >= 0: the loop never holds more than len
\* constants (it breaks only when it holds exactly len, and what it holds
\* only grows), what it holds are the canonical candidates of the chained
\* blocks in stream order, a rejected block still being the source of the
\* next, and what it returns is what it holds, len elements.
C26_ExactlyLenConstants ==
    call.op = "generate_constants" =>
        /\ Len(call.constants) <= call.len
        /\ call.constants = accepted(chain(call.persona, call.seed, nops))
        /\ \A i \in 1 .. Len(call.constants) : call.constants[i] < FrModulus
        /\ ret.kind = "ok" => ret.val = call.constants /\ Len(ret.val) = call.len

====
